---- MODULE Spec2Model ----
(***************************************************************************)
(* Chatbook: PDF ingestion (PDFProcessor / RAGProcessor), the persisted    *)
(* "last processed PDF" state and the retrieval tool, as a state machine.  *)
(* Every await of the TypeScript code is one step; the vector store, the   *)
(* embedding service, the PDF extractor and the file system are the        *)
(* environment and answer nondeterministically.                            *)
(***************************************************************************)
EXTENDS Integers, Sequences, FiniteSets, TLC

\* ------------------------------------------------------------------ bounds
MaxRuns == 2        \* ingestion runs started in one behaviour
MaxBatches == 3     \* embedding batches of the largest document
MaxTextLen == 6     \* characters of the texts given to splitTextIntoChunks

\* ------------------------------------------------------- program constants
BATCH_SIZE == 100
CHUNK_SIZE == 1000
DEFAULT_TOPK == 5
DEFAULT_PDF_PATH == <<"data", "pdf", "Principles2.pdf">>

\* --------------------------------------------------------------- input sets
Null == <<>>                            \* null / undefined / '' : the falsy path
NoPath == Null                          \* filePath argument not given
Absent == "<absent>"                    \* a result field the code does not set
UserPath == <<"docs", "user.pdf">>
UploadPaths == {UserPath, NoPath}       \* filePath arguments of an ingestion request
ModelDim == 768                         \* dimension the embedding model answers with
ChunkCounts ==                          \* chunks.length of the documents ingested
  {0, 1, BATCH_SIZE, BATCH_SIZE + 1,
   (MaxBatches - 1) * BATCH_SIZE + BATCH_SIZE \div 2}
Queries == {<<>>, <<" ">>, <<"x">>}
VerifyQuery == <<"t">>                  \* 'transformer'
TopKs == {0, DEFAULT_TOPK}

\* ------------------------------------------------------------------- state
VARIABLES
  stateFile,      \* pdf-state.json: missing, or the object it parses to
  defaultState,   \* module-level defaultState object of pdf-storage
  coll,           \* the Qdrant collection 'pdf_documents'
  pc,             \* position of the ingestion run in progress, or "idle"
  run,            \* locals of the ingestion run in progress
  log,            \* calls issued by the current run, in order
  last,           \* outcome of the operation that finished last
  runs            \* number of ingestion runs started

vars == <<stateFile, defaultState, coll, pc, run, log, last, runs>>

\* ------------------------------------------------------------- small helpers
Min(a, b) == IF a < b THEN a ELSE b

basename(p) == IF Len(p) = 0 THEN "" ELSE p[Len(p)]

IsSpace(c) == c \in {" ", "\n"}

RECURSIVE trimStart(_)
trimStart(s) ==
  IF Len(s) > 0 /\ IsSpace(Head(s)) THEN trimStart(Tail(s)) ELSE s

RECURSIVE trimEnd(_)
trimEnd(s) ==
  IF Len(s) > 0 /\ IsSpace(s[Len(s)]) THEN trimEnd(SubSeq(s, 1, Len(s) - 1)) ELSE s

trim(s) == trimEnd(trimStart(s))

\* ----------------------------------------------------------- pdf-storage.ts
MissingFile == [kind |-> "missing", lastProcessedPdfPath |-> Null]

ObjectFile(state) == [kind |-> "object", lastProcessedPdfPath |-> state.lastProcessedPdfPath]

InitialDefaultState == [lastProcessedPdfPath |-> Null]

\* a state file that is not the JSON of an object: JSON.parse throws on it,
\* or gives null, or gives a number, a string or a boolean
UnparseableFile == [kind |-> "unparseable", lastProcessedPdfPath |-> Null]

NullFile == [kind |-> "null", lastProcessedPdfPath |-> Null]

PrimitiveFile == [kind |-> "primitive", lastProcessedPdfPath |-> Null]

CorruptFiles == {UnparseableFile, NullFile, PrimitiveFile}

\* getPdfState returns the defaultState object itself: no file, or the
\* read or the parse threw and the catch block logged it
ReturnsDefault(file) == file.kind \in {"missing", "unparseable"}

\* getPdfState: the value the file parses to, else the defaultState object;
\* of a parsed value, the property lastProcessedPdfPath
getPdfState(file, dflt) ==
  IF ReturnsDefault(file)
    THEN dflt
    ELSE [lastProcessedPdfPath |-> file.lastProcessedPdfPath]

\* state.lastProcessedPdfPath throws a TypeError when state is null
ReadThrows(file) == file.kind = "null"

\* state.lastProcessedPdfPath = pdfPath throws a TypeError when state is
\* null or, in module (strict) code, a primitive
WriteThrows(file) == file.kind \in {"null", "primitive"}

getLastProcessedPdfPath(file, dflt) == getPdfState(file, dflt).lastProcessedPdfPath

\* the object setLastProcessedPdfPath hands to savePdfState
UpdatedState(file, dflt, p) ==
  [getPdfState(file, dflt) EXCEPT !.lastProcessedPdfPath = p]

\* savePdfState: writeFileSync succeeds, or throws and the error is logged
savePdfState(file, state, wrote) == IF wrote THEN ObjectFile(state) ELSE file

\* setLastProcessedPdfPath as an action on (stateFile, defaultState); the
\* object mutated is defaultState itself when no state file exists
setLastProcessedPdfPath(p, wrote) ==
  /\ stateFile' = savePdfState(stateFile, UpdatedState(stateFile, defaultState, p), wrote)
  /\ defaultState' = IF ReturnsDefault(stateFile)
                       THEN UpdatedState(stateFile, defaultState, p)
                       ELSE defaultState

LastProcessedPath == getLastProcessedPdfPath(stateFile, defaultState)

\* ------------------------------------------------------------ data layout
\* A run of consecutive items is written as a slice [first, count]: the texts
\* chunks[first .. first+count-1], the ids generated for them, their metadata.
\* The k-th item of a slice (k from 1) is item number first + k - 1.
Slice(first, count) == [first |-> first, count |-> IF count > 0 THEN count ELSE 0]

\* the text of chunk k (zero-based) of the document being ingested
ChunkText(k) == <<"chunk", k>>

title(path) == <<"title", basename(path)>>

\* ids from randomUUID: never reused
generateSafeIds(runNo, first, count) == [run |-> runNo, ids |-> Slice(first, count)]

\* ------------------------------------------- environment: embedding service
\* embedMany answers with one vector per text in order, or with no vector,
\* or throws
EmbedOutcomes == {"ok", "empty", "throw"}

Embeddings(texts, outcome) ==
  [first |-> texts.first, count |-> IF outcome = "ok" THEN texts.count ELSE 0,
   dim |-> ModelDim]

NoEmbeddings == Embeddings(Slice(0, 0), "empty")

\* the embedding models: the one the code names, and another one a caller
\* of RAGProcessor.processPDF may pass; the dimension of their vectors
EMBEDDING_001 == "embedding-001"

OtherEmbedder == "other-model"

Embedders == {EMBEDDING_001, OtherEmbedder}

DimOf(model) == IF model = EMBEDDING_001 THEN ModelDim ELSE 2 * ModelDim

\* embedMany({values, model: embedder})
EmbeddingsBy(model, texts, outcome) ==
  [Embeddings(texts, outcome) EXCEPT !.dim = DimOf(model)]

\* embeddings[k - 1]
EmbeddingAt(embeddings, k) ==
  [of |-> ChunkText(embeddings.first + k - 1), dim |-> embeddings.dim]

\* the embedding of the one-element call embedMany([query])
QueryVector(query) == [of |-> query, dim |-> ModelDim]

\* ------------------------------------------------- environment: vector store
\* the collection: whether it exists, its dimension, the upserts it received
AbsentColl == [exists |-> FALSE, dim |-> 0, batches |-> <<>>]

\* deleteIndex: removes the collection; throws 'not found' when there is
\* none; or fails for another reason (connectivity) and changes nothing
DeleteOutcomes(c) == IF c.exists THEN {"ok", "error"} ELSE {"notfound", "error"}

AfterDelete(c, outcome) == IF outcome = "ok" THEN AbsentColl ELSE c

\* createIndex: creates the collection; an existing collection of the same
\* dimension is accepted as it is, one of another dimension is an error
CreateOutcomes(c, dim) ==
  IF c.exists /\ c.dim # dim THEN {"error"} ELSE {"ok", "error"}

AfterCreate(c, dim, outcome) ==
  IF outcome = "ok" /\ ~c.exists
    THEN [exists |-> TRUE, dim |-> dim, batches |-> <<>>]
    ELSE c

\* upsert: one point per vector, paired by position with ids and metadata
UpsertOutcomes(c) == IF c.exists THEN {"ok", "error"} ELSE {"error"}

AfterUpsert(c, ids, vectors, metadata, outcome) ==
  IF outcome = "ok" /\ vectors.count > 0
    THEN [c EXCEPT !.batches =
            Append(@, [ids |-> ids, vectors |-> vectors, metadata |-> metadata])]
    ELSE c

\* chunkMetadataArray[k - 1] of the two processors
MetadataAt(metadata, k) ==
  IF metadata.processor = "pdf"
    THEN [text |-> ChunkText(metadata.first + k - 1), title |-> title(metadata.path),
          fileName |-> basename(metadata.path), author |-> "Unknown",
          description |-> "", pageCount |-> "numPages",
          chunkIndex |-> metadata.first + k - 1, totalChunks |-> metadata.n,
          source |-> metadata.path]
    ELSE [text |-> ChunkText(metadata.first + k - 1), title |-> title(metadata.path),
          fileName |-> basename(metadata.path),
          chunkIndex |-> metadata.first + k - 1, totalChunks |-> metadata.n]

\* the k-th point written by one upsert
PointAt(batch, k) ==
  [id |-> <<batch.ids.run, batch.ids.ids.first + k - 1>>,
   vector |-> EmbeddingAt(batch.vectors, k),
   metadata |-> MetadataAt(batch.metadata, k)]

Points(batch) == [k \in 1..batch.vectors.count |-> PointAt(batch, k)]

\* all points of the collection, in the order of their insertion
RECURSIVE RecordsOf(_)
RecordsOf(batches) ==
  IF Len(batches) = 0 THEN <<>>
  ELSE Points(Head(batches)) \o RecordsOf(Tail(batches))

Records(c) == RecordsOf(c.batches)

RECURSIVE CountOf(_)
CountOf(batches) ==
  IF Len(batches) = 0 THEN 0 ELSE Head(batches).vectors.count + CountOf(Tail(batches))

RecordCount(c) == CountOf(c.batches)

\* the first k points, without building the others
RECURSIVE FirstPoints(_, _)
FirstPoints(batches, k) ==
  IF k <= 0 \/ Len(batches) = 0 THEN <<>>
  ELSE [j \in 1..Min(k, Head(batches).vectors.count) |-> PointAt(Head(batches), j)]
         \o FirstPoints(Tail(batches), k - Head(batches).vectors.count)

\* query: the topK points nearest to the query vector, best first; the model
\* ranks the points in the order of their insertion
QueryOutcomes(c) == IF c.exists THEN {"ok", "error"} ELSE {"error"}

Similarity(queryVector, c, pos) == RecordCount(c) - pos + 1

QueryPoints(c, queryVector, topK) ==
  LET found == FirstPoints(c.batches, topK)
  IN  [j \in DOMAIN found |->
         [id |-> found[j].id, score |-> Similarity(queryVector, c, j),
          metadata |-> found[j].metadata]]

\* ------------------------------------------------------------ run bookkeeping
IdleRun ==
  [entry |-> "none", id |-> 0, path |-> Null, n |-> 0, i |-> 0,
   embeddings |-> NoEmbeddings, isIndexCreated |-> FALSE,
   pathBefore |-> Null, collBefore |-> AbsentColl,
   embedder |-> EMBEDDING_001]

NoOutcome ==
  [op |-> "none", success |-> FALSE, failedAt |-> "none", raised |-> FALSE,
   searchRaised |-> FALSE, results |-> <<>>, raw |-> <<>>, fileName |-> Absent,
   message |-> Absent, chunks |-> 0, embedCalls |-> 0, storeCalls |-> 0,
   query |-> <<>>, filePath |-> NoPath, topK |-> 0, pathBefore |-> Null,
   caught |-> FALSE]

StepOutcome == [NoOutcome EXCEPT !.op = "step"]

Init ==
  /\ stateFile = MissingFile
  /\ defaultState = InitialDefaultState
  /\ coll = AbsentColl
  /\ pc = "idle"
  /\ run = IdleRun
  /\ log = <<>>
  /\ last = NoOutcome
  /\ runs = 0


Event(op, ok, from, size) == [op |-> op, ok |-> ok, from |-> from, size |-> size]

\* an upsert call: the lengths of its vectors list and of its ids list
UpsertEvent(ok, from, vectors, ids) ==
  [op |-> "upsert", ok |-> ok, from |-> from, size |-> vectors, ids |-> ids]

\* the run's locals at its first step
NewRun(entry, path) ==
  [IdleRun EXCEPT !.entry = entry, !.id = runs + 1, !.path = path,
                  !.pathBefore = LastProcessedPath, !.collBefore = coll]

\* what the entry point returns when its ingestion ends at step failedAt
\* ("none": the ingestion succeeded)
EntryResult(entry, path, n, failedAt, pathBefore) ==
  CASE entry = "upload" ->
         \* uploadPdfTool.execute: success result, or the catch block's result
         [NoOutcome EXCEPT !.op = "upload", !.failedAt = failedAt,
            !.success = (failedAt = "none"),
            !.message = IF failedAt = "none" THEN "Successfully processed PDF"
                        ELSE "Error processing PDF",
            !.fileName = IF failedAt = "none" THEN basename(path) ELSE Absent,
            !.chunks = IF failedAt = "none" THEN n ELSE 0,
            !.filePath = path, !.pathBefore = pathBefore]
    [] entry = "workflow" ->
         \* pdfOperationStep: the agent's stream ended; success whatever the tool did
         [NoOutcome EXCEPT !.op = "workflow", !.failedAt = failedAt,
            !.success = TRUE, !.message = "PDF processed successfully",
            !.fileName = basename(path),
            !.filePath = path, !.pathBefore = pathBefore]
    [] entry = "processPDF" ->
         \* RAGProcessor.processPDF called directly: returns {chunks, fileName},
         \* or its catch block throws the error again
         [NoOutcome EXCEPT !.op = "processPDF", !.failedAt = failedAt,
            !.success = (failedAt = "none"), !.raised = (failedAt # "none"),
            !.filePath = path, !.pathBefore = pathBefore]
    [] OTHER ->
         \* initializePdf: the catch block returns false
         [NoOutcome EXCEPT !.op = "init", !.failedAt = failedAt,
            !.success = FALSE, !.message = "Error initializing PDF",
            !.filePath = path, !.pathBefore = pathBefore]

\* the run ends: the entry point returns, nothing is cleaned up
Finish(failedAt) ==
  /\ pc' = "idle"
  /\ last' = EntryResult(run.entry, run.path, run.n, failedAt, run.pathBefore)
  /\ run' = [run EXCEPT !.embeddings = NoEmbeddings]

\* ------------------------------------------------ uploadPdfTool.execute, begin
\* validation, existsSync and setPdfPath up to the call of processPDF
UploadBegin(filePath, exists) ==
  /\ pc = "idle"
  /\ runs < MaxRuns
  /\ runs' = runs + 1
  /\ log' = IF filePath # NoPath /\ exists
              THEN <<Event("setPath", TRUE, 0, 0)>> ELSE <<>>
  /\ UNCHANGED coll
  /\ IF filePath = NoPath \/ ~exists
       THEN /\ pc' = "idle"
            /\ run' = NewRun("upload", filePath)
            /\ last' = [NoOutcome EXCEPT !.op = "upload",
                          !.failedAt = IF filePath = NoPath THEN "path" ELSE "file",
                          !.message = IF filePath = NoPath
                                        THEN "Please provide a valid PDF file path"
                                        ELSE "File not found",
                          !.filePath = filePath, !.pathBefore = LastProcessedPath]
            /\ UNCHANGED <<stateFile, defaultState>>
       ELSE /\ setLastProcessedPdfPath(filePath, TRUE)
            /\ pc' = "pdf_extract"
            /\ run' = NewRun("upload", filePath)
            /\ last' = StepOutcome

\* ------------------------------------------------- PDFProcessor.processPDF
\* textsToEmbed, ids and chunkMetadataArray built by the loop over chunks
PdfTexts(n) == Slice(0, n)

PdfMetadataArray(path, n) ==
  [processor |-> "pdf", path |-> path, first |-> 0, count |-> n, n |-> n]

\* readFileSync, pdf.js text extraction, splitTextIntoChunks
PdfExtract(ok, n) ==
  /\ pc = "pdf_extract"
  /\ UNCHANGED <<stateFile, defaultState, coll, log, runs>>
  /\ IF ok
       THEN /\ pc' = "pdf_embed"
            /\ run' = [run EXCEPT !.n = n]
            /\ last' = StepOutcome
       ELSE Finish("extract")

\* one embedMany call on all the chunks; an empty answer is an error
PdfEmbed(outcome) ==
  /\ pc = "pdf_embed"
  /\ log' = Append(log, Event("embed", outcome = "ok", 0, run.n))
  /\ UNCHANGED <<stateFile, defaultState, coll, runs>>
  /\ IF outcome = "throw" \/ Embeddings(PdfTexts(run.n), outcome).count = 0
       THEN Finish("embed")
       ELSE /\ pc' = "pdf_delete"
            /\ run' = [run EXCEPT !.embeddings = Embeddings(PdfTexts(run.n), outcome)]
            /\ last' = StepOutcome

\* deleteIndex; whatever it throws is ignored
PdfDelete(outcome) ==
  /\ pc = "pdf_delete"
  /\ outcome \in DeleteOutcomes(coll)
  /\ coll' = AfterDelete(coll, outcome)
  /\ log' = Append(log, Event("delete", outcome = "ok", 0, 0))
  /\ pc' = "pdf_create"
  /\ last' = StepOutcome
  /\ UNCHANGED <<stateFile, defaultState, run, runs>>

\* createIndex with the dimension of the first embedding
PdfCreate(outcome) ==
  /\ pc = "pdf_create"
  /\ outcome \in CreateOutcomes(coll, EmbeddingAt(run.embeddings, 1).dim)
  /\ coll' = AfterCreate(coll, EmbeddingAt(run.embeddings, 1).dim, outcome)
  /\ log' = Append(log, Event("create", outcome = "ok", 0, EmbeddingAt(run.embeddings, 1).dim))
  /\ UNCHANGED <<stateFile, defaultState, runs>>
  /\ IF outcome = "ok"
       THEN pc' = "pdf_upsert" /\ last' = StepOutcome /\ UNCHANGED run
       ELSE Finish("create")

\* one upsert of all vectors
PdfUpsert(outcome) ==
  /\ pc = "pdf_upsert"
  /\ outcome \in UpsertOutcomes(coll)
  /\ coll' = AfterUpsert(coll, generateSafeIds(run.id, 0, run.n), run.embeddings,
                         PdfMetadataArray(run.path, run.n), outcome)
  /\ log' = Append(log, UpsertEvent(outcome = "ok", 0, run.embeddings.count, run.n))
  /\ UNCHANGED <<stateFile, defaultState, runs>>
  /\ Finish(IF outcome = "ok" THEN "none" ELSE "upsert")


\* ------------------------------------------------------ RAGProcessor.cleanup
\* deleteIndex inside two try blocks: what the call leaves of the collection
cleanup(c, outcome) == AfterDelete(c, outcome)

\* whether cleanup throws to its caller: 'not found' is logged as fine, any
\* other error is logged as a warning, and the outer catch logs the rest
cleanupThrows_NotFound(outcome) == outcome = "notfound"

cleanupThrows(outcome) == FALSE

\* ------------------------------------------------------------ initializePdf
InitBegin(exists) ==
  /\ pc = "idle"
  /\ runs < MaxRuns
  /\ runs' = runs + 1
  /\ log' = <<>>
  /\ run' = NewRun("init", DEFAULT_PDF_PATH)
  /\ UNCHANGED <<stateFile, defaultState, coll>>
  /\ IF exists
       THEN pc' = "init_cleanup" /\ last' = StepOutcome
       ELSE /\ pc' = "idle"
            /\ last' = [NoOutcome EXCEPT !.op = "init", !.failedAt = "file",
                          !.message = "Default PDF not found",
                          !.filePath = DEFAULT_PDF_PATH,
                          !.pathBefore = LastProcessedPath]

\* await processor.cleanup()
InitCleanup(outcome) ==
  /\ pc = "init_cleanup"
  /\ outcome \in DeleteOutcomes(coll)
  /\ coll' = cleanup(coll, outcome)
  /\ log' = Append(log, Event("delete", outcome = "ok", 0, 0))
  /\ UNCHANGED <<stateFile, defaultState, runs>>
  /\ IF cleanupThrows(outcome)
       THEN Finish("cleanup")
       ELSE pc' = "rag_extract" /\ last' = StepOutcome /\ UNCHANGED run

\* ------------------------------------------------- RAGProcessor.processPDF
\* chunks.slice(i, i + BATCH_SIZE)
BatchSize(i, n) == Min(BATCH_SIZE, n - i)

BatchTexts(i, n) == Slice(i, BatchSize(i, n))

\* batchChunks.map((chunk, j) => ({ ..., chunkIndex: i + j, totalChunks }))
RagMetadataArray(path, i, n) ==
  [processor |-> "rag", path |-> path, first |-> i, count |-> BatchSize(i, n), n |-> n]

\* readFileSync, pdf.js text extraction, MDocument.chunk
RagExtract(ok, n) ==
  /\ pc = "rag_extract"
  /\ UNCHANGED <<stateFile, defaultState, coll, log, runs>>
  /\ IF ok
       THEN /\ pc' = "rag_cleanup"
            /\ run' = [run EXCEPT !.n = n]
            /\ last' = StepOutcome
       ELSE Finish("extract")

\* await this.cleanup(), then the batch loop is entered (or skipped)
RagCleanup(outcome) ==
  /\ pc = "rag_cleanup"
  /\ outcome \in DeleteOutcomes(coll)
  /\ coll' = cleanup(coll, outcome)
  /\ log' = Append(log, Event("delete", outcome = "ok", 0, 0))
  /\ UNCHANGED <<stateFile, defaultState, runs>>
  /\ IF cleanupThrows(outcome)
       THEN Finish("cleanup")
       ELSE /\ run' = [run EXCEPT !.i = 0, !.isIndexCreated = FALSE]
            /\ pc' = IF 0 < run.n THEN "rag_embed" ELSE "init_setpath"
            /\ last' = StepOutcome

\* embedMany on the batch at offset i
RagEmbed(outcome) ==
  /\ pc = "rag_embed"
  /\ log' = Append(log, Event("embed", outcome = "ok", run.i, BatchSize(run.i, run.n)))
  /\ UNCHANGED <<stateFile, defaultState, coll, runs>>
  /\ IF outcome = "throw"
       THEN Finish("embed")
       ELSE /\ run' = [run EXCEPT !.embeddings =
                               EmbeddingsBy(run.embedder, BatchTexts(run.i, run.n), outcome)]
            /\ pc' = IF ~run.isIndexCreated
                          /\ EmbeddingsBy(run.embedder, BatchTexts(run.i, run.n), outcome).count > 0
                       THEN "rag_create" ELSE "rag_upsert"
            /\ last' = StepOutcome

\* createIndex with the dimension of the batch's first embedding
RagCreate(outcome) ==
  /\ pc = "rag_create"
  /\ outcome \in CreateOutcomes(coll, EmbeddingAt(run.embeddings, 1).dim)
  /\ coll' = AfterCreate(coll, EmbeddingAt(run.embeddings, 1).dim, outcome)
  /\ log' = Append(log, Event("create", outcome = "ok", run.i, EmbeddingAt(run.embeddings, 1).dim))
  /\ UNCHANGED <<stateFile, defaultState, runs>>
  /\ IF outcome = "ok"
       THEN /\ pc' = "rag_upsert"
            /\ run' = [run EXCEPT !.isIndexCreated = TRUE]
            /\ last' = StepOutcome
       ELSE Finish("create")

\* upsert of the batch, then the loop's i += BATCH_SIZE and its test
RagUpsert_NotAwaited(outcome) ==
  /\ pc = "rag_upsert"
  /\ outcome \in UpsertOutcomes(coll)
  /\ coll' = AfterUpsert(coll, generateSafeIds(run.id, run.i, BatchSize(run.i, run.n)),
                         run.embeddings, RagMetadataArray(run.path, run.i, run.n), outcome)
  /\ log' = IF run.i + BATCH_SIZE < run.n THEN log
            ELSE Append(log, UpsertEvent(outcome = "ok", run.i, run.embeddings.count,
                                         BatchSize(run.i, run.n)))
  /\ UNCHANGED <<stateFile, defaultState, runs>>
  /\ IF outcome = "ok" \/ run.i + BATCH_SIZE < run.n
       THEN /\ run' = [run EXCEPT !.i = @ + BATCH_SIZE, !.embeddings = NoEmbeddings]
            /\ pc' = IF run.i + BATCH_SIZE < run.n THEN "rag_embed" ELSE "init_setpath"
            /\ last' = StepOutcome
       ELSE Finish("upsert")

RagUpsert(outcome) ==
  /\ pc = "rag_upsert"
  /\ outcome \in UpsertOutcomes(coll)
  /\ coll' = AfterUpsert(coll, generateSafeIds(run.id, run.i, BatchSize(run.i, run.n)),
                         run.embeddings, RagMetadataArray(run.path, run.i, run.n), outcome)
  /\ log' = Append(log, UpsertEvent(outcome = "ok", run.i, run.embeddings.count,
                                   BatchSize(run.i, run.n)))
  /\ UNCHANGED <<stateFile, defaultState, runs>>
  /\ IF outcome = "ok"
       THEN /\ run' = [run EXCEPT !.i = @ + BATCH_SIZE, !.embeddings = NoEmbeddings]
            /\ pc' = IF run.i + BATCH_SIZE < run.n THEN "rag_embed" ELSE "init_setpath"
            /\ last' = StepOutcome
       ELSE Finish("upsert")

\* initializePdf after processPDF returned: setLastProcessedPdfPath
InitSetPath ==
  /\ pc = "init_setpath"
  /\ setLastProcessedPdfPath(DEFAULT_PDF_PATH, TRUE)
  /\ log' = Append(log, Event("setPath", TRUE, 0, 0))
  /\ pc' = "init_verify"
  /\ last' = StepOutcome
  /\ UNCHANGED <<coll, run, runs>>


\* ------------------------------------------------------------ searchContent
\* the try block of PDFProcessor.searchContent: embedMany([query]), the
\* dimension of embeddings[0] is read (a TypeError when there is none), query
PdfSearchTry(query, topK, c, embedOutcome, queryOutcome) ==
  IF embedOutcome # "ok"
    THEN [threw |-> TRUE, results |-> <<>>, embedCalls |-> 1, storeCalls |-> 0]
    ELSE [threw |-> queryOutcome # "ok",
          results |-> IF queryOutcome = "ok"
                        THEN QueryPoints(c, QueryVector(query), topK) ELSE <<>>,
          embedCalls |-> 1, storeCalls |-> 1]

\* PDFProcessor.searchContent: the catch block returns []
PdfSearchContent_Rethrow(query, topK, c, embedOutcome, queryOutcome) ==
  LET t == PdfSearchTry(query, topK, c, embedOutcome, queryOutcome)
  IN  [raised |-> t.threw, results |-> IF t.threw THEN <<>> ELSE t.results,
       caught |-> t.threw, embedCalls |-> t.embedCalls, storeCalls |-> t.storeCalls]

PdfSearchContent(query, topK, c, embedOutcome, queryOutcome) ==
  LET t == PdfSearchTry(query, topK, c, embedOutcome, queryOutcome)
  IN  [raised |-> FALSE, results |-> IF t.threw THEN <<>> ELSE t.results,
       caught |-> t.threw, embedCalls |-> t.embedCalls, storeCalls |-> t.storeCalls]

\* metadata.text || dflt
textOr(metadata, dflt) == IF "text" \in DOMAIN metadata THEN metadata.text ELSE dflt

\* the result mapping of RAGProcessor.searchContent
RagShape(r) == [score |-> r.score, metadata |-> r.metadata, text |-> textOr(r.metadata, "")]

\* the try block of RAGProcessor.searchContent: embedMany([query]), an empty
\* answer is thrown as 'Failed to generate query embedding', query, map
RagSearchTry(query, topK, c, embedOutcome, queryOutcome) ==
  IF embedOutcome # "ok"
    THEN [threw |-> TRUE, results |-> <<>>, embedCalls |-> 1, storeCalls |-> 0]
    ELSE [threw |-> queryOutcome # "ok",
          results |-> IF queryOutcome = "ok"
                        THEN [j \in DOMAIN QueryPoints(c, QueryVector(query), topK) |->
                                RagShape(QueryPoints(c, QueryVector(query), topK)[j])]
                        ELSE <<>>,
          embedCalls |-> 1, storeCalls |-> 1]

\* RAGProcessor.searchContent: the catch block returns []
RagSearchContent(query, topK, c, embedOutcome, queryOutcome) ==
  LET t == RagSearchTry(query, topK, c, embedOutcome, queryOutcome)
  IN  [raised |-> FALSE, results |-> IF t.threw THEN <<>> ELSE t.results,
       caught |-> t.threw, embedCalls |-> t.embedCalls, storeCalls |-> t.storeCalls]

\* initializePdf, last step: searchContent('transformer', 1) and the verdict
InitVerify(embedOutcome, queryOutcome) ==
  /\ pc = "init_verify"
  /\ queryOutcome \in QueryOutcomes(coll)
  /\ LET r == RagSearchContent(VerifyQuery, 1, coll, embedOutcome, queryOutcome)
     IN  last' = [NoOutcome EXCEPT !.op = "init", !.failedAt = "none",
                    !.success = (Len(r.results) > 0),
                    !.searchRaised = r.raised, !.raw = r.results, !.caught = r.caught,
                    !.embedCalls = r.embedCalls, !.storeCalls = r.storeCalls,
                    !.query = VerifyQuery, !.topK = 1, !.chunks = run.n,
                    !.filePath = run.path, !.pathBefore = run.pathBefore]
  /\ pc' = "idle"
  /\ UNCHANGED <<stateFile, defaultState, coll, run, log, runs>>

\* ------------------------------------------------------ queryPdfTool.execute
\* !context.query || context.query.trim().length === 0
IsBlankQuery_NoTrim(query) == Len(query) = 0

IsBlankQuery(query) == Len(query) = 0 \/ Len(trim(query)) = 0

\* context.topK || 5
EffectiveTopK(topK) == IF topK = 0 THEN DEFAULT_TOPK ELSE topK

NoTextPlaceholder == "No text content available for this document section"

FormatResult(r, pdfPath) ==
  [text |-> textOr(r.metadata, NoTextPlaceholder),
   score |-> r.score,
   metadata |-> [fileName |-> basename(pdfPath),
                 title |-> IF "title" \in DOMAIN r.metadata
                             THEN r.metadata.title ELSE title(pdfPath),
                 source |-> IF "source" \in DOMAIN r.metadata
                              THEN r.metadata.source ELSE <<basename(pdfPath)>>]]

\* results.map(result => ...): one formatted entry per result, in order
FormatResults_DropsFirst(results, pdfPath) ==
  [j \in 1..(Len(results) - 1) |-> FormatResult(results[j + 1], pdfPath)]

FormatResults(results, pdfPath) ==
  [j \in DOMAIN results |-> FormatResult(results[j], pdfPath)]

\* context.filePath || getPdfPath()
EffectivePath_StoredFirst(filePath, lastPath) == IF lastPath # Null THEN lastPath ELSE filePath

EffectivePath(filePath, lastPath) == IF filePath # NoPath THEN filePath ELSE lastPath

queryPdfTool(query, filePath, topK, lastPath, c, embedOutcome, queryOutcome) ==
  LET pdfPath == EffectivePath(filePath, lastPath)
      s == PdfSearchContent(query, EffectiveTopK(topK), c, embedOutcome, queryOutcome)
      base == [NoOutcome EXCEPT !.op = "query", !.query = query, !.filePath = filePath,
                                !.topK = topK, !.pathBefore = lastPath]
  IN  IF IsBlankQuery(query) \/ pdfPath = Null
        THEN [base EXCEPT !.fileName = ""]
        ELSE IF s.raised
          THEN \* the tool's own catch block
               [base EXCEPT !.fileName = "", !.searchRaised = TRUE, !.caught = TRUE,
                            !.embedCalls = s.embedCalls, !.storeCalls = s.storeCalls]
          ELSE [base EXCEPT !.fileName = basename(pdfPath),
                            !.results = FormatResults(s.results, pdfPath),
                            !.raw = s.results, !.caught = s.caught,
                            !.embedCalls = s.embedCalls, !.storeCalls = s.storeCalls]

\* a retrieval changes nothing but the observation `last`: one straight after
\* another reaches no state the first does not, so it is taken once per state
Observed == last.op \in {"query", "wfquery"}

\* the agent calls the query tool; it may do so between any two steps of a run
QueryTool(query, filePath, topK, embedOutcome, queryOutcome) ==
  /\ ~Observed
  /\ queryOutcome \in QueryOutcomes(coll)
  /\ last' = queryPdfTool(query, filePath, topK, LastProcessedPath, coll,
                          embedOutcome, queryOutcome)
  /\ UNCHANGED <<stateFile, defaultState, coll, pc, run, log, runs>>


\* ------------------------------------------ pdfOperationStep.execute: process
\* up to the call of agent.stream
WorkflowProcess(filePath, exists) ==
  /\ pc = "idle"
  /\ runs < MaxRuns
  /\ runs' = runs + 1
  /\ run' = NewRun("workflow", filePath)
  /\ UNCHANGED coll
  /\ IF filePath = NoPath
       THEN /\ pc' = "idle"
            /\ log' = <<>>
            /\ last' = [NoOutcome EXCEPT !.op = "workflow", !.failedAt = "path",
                          !.message = "File path is required for PDF processing",
                          !.fileName = "", !.filePath = filePath,
                          !.pathBefore = LastProcessedPath]
            /\ UNCHANGED <<stateFile, defaultState>>
       ELSE /\ setLastProcessedPdfPath(filePath, TRUE)
            /\ log' = <<Event("setPath", TRUE, 0, 0)>>
            /\ IF exists
                 THEN pc' = "wf_agent" /\ last' = StepOutcome
                 ELSE /\ pc' = "idle"
                      /\ last' = [NoOutcome EXCEPT !.op = "workflow", !.failedAt = "file",
                                    !.message = "File not found",
                                    !.fileName = basename(filePath),
                                    !.filePath = filePath,
                                    !.pathBefore = LastProcessedPath]

\* the agent answers the 'process this PDF' message by calling uploadPdfTool
WfAgentUpload ==
  /\ pc = "wf_agent"
  /\ setLastProcessedPdfPath(run.path, TRUE)
  /\ log' = Append(log, Event("setPath", TRUE, 0, 0))
  /\ pc' = "pdf_extract"
  /\ last' = StepOutcome
  /\ UNCHANGED <<coll, run, runs>>

\* the agent answers without calling a tool; the step reports success
WfAgentNoTool ==
  /\ pc = "wf_agent"
  /\ Finish("notool")
  /\ UNCHANGED <<stateFile, defaultState, coll, log, runs>>

\* -------------------------------------------- pdfOperationStep.execute: query
NoPdfProcessed == "Error: No PDF has been processed"

pdfOperationQuery(query, filePath, lastPath) ==
  LET target == EffectivePath(filePath, lastPath)
      base == [NoOutcome EXCEPT !.op = "wfquery", !.query = query,
                                !.filePath = filePath, !.pathBefore = lastPath]
  IN  IF Len(query) = 0
        THEN [base EXCEPT !.message = "Query is required for PDF querying",
                          !.fileName = basename(IF target # Null THEN target
                                                ELSE DEFAULT_PDF_PATH)]
        ELSE IF target = Null
          THEN [base EXCEPT !.message = NoPdfProcessed, !.fileName = ""]
          ELSE [base EXCEPT !.success = TRUE, !.message = "Query executed successfully",
                            !.fileName = basename(target)]

WorkflowQuery(query, filePath) ==
  /\ ~Observed
  /\ last' = pdfOperationQuery(query, filePath, LastProcessedPath)
  /\ UNCHANGED <<stateFile, defaultState, coll, pc, run, log, runs>>

\* ------------------------------------------------------------ specification
Next ==
  \/ \E filePath \in UploadPaths, exists \in BOOLEAN : UploadBegin(filePath, exists)
  \/ \E ok \in BOOLEAN, n \in ChunkCounts : PdfExtract(ok, n)
  \/ \E outcome \in EmbedOutcomes : PdfEmbed(outcome)
  \/ \E outcome \in {"ok", "notfound", "error"} : PdfDelete(outcome)
  \/ \E outcome \in {"ok", "error"} : PdfCreate(outcome)
  \/ \E outcome \in {"ok", "error"} : PdfUpsert(outcome)
  \/ \E exists \in BOOLEAN : InitBegin(exists)
  \/ \E outcome \in {"ok", "notfound", "error"} : InitCleanup(outcome)
  \/ \E ok \in BOOLEAN, n \in ChunkCounts : RagExtract(ok, n)
  \/ \E outcome \in {"ok", "notfound", "error"} : RagCleanup(outcome)
  \/ \E outcome \in EmbedOutcomes : RagEmbed(outcome)
  \/ \E outcome \in {"ok", "error"} : RagCreate(outcome)
  \/ \E outcome \in {"ok", "error"} : RagUpsert(outcome)
  \/ InitSetPath
  \/ \E embedOutcome \in EmbedOutcomes, queryOutcome \in {"ok", "error"} :
       InitVerify(embedOutcome, queryOutcome)
  \/ \E filePath \in UploadPaths, exists \in BOOLEAN : WorkflowProcess(filePath, exists)
  \/ WfAgentUpload
  \/ WfAgentNoTool
  \/ \E query \in Queries, filePath \in {NoPath, UserPath}, topK \in TopKs,
        embedOutcome \in EmbedOutcomes, queryOutcome \in {"ok", "error"} :
       QueryTool(query, filePath, topK, embedOutcome, queryOutcome)
  \/ \E query \in Queries, filePath \in {NoPath, UserPath} : WorkflowQuery(query, filePath)

Spec == Init /\ [][Next]_vars


\* ------------------------------------------- PDFProcessor.splitTextIntoChunks
\* A string is a sequence of characters.
IsSentenceEnd(c) == c \in {".", "!", "?"}

SetMin(S) == CHOOSE x \in S : \A y \in S : x <= y

\* text.split('\n\n') from position from on: the pieces between successive
\* occurrences of the separator, found left to right
RECURSIVE splitBlankLines(_, _)
splitBlankLines(text, from) ==
  LET at == {i \in from..(Len(text) - 1) : text[i] = "\n" /\ text[i + 1] = "\n"}
  IN  IF at = {} THEN <<SubSeq(text, from, Len(text))>>
      ELSE <<SubSeq(text, from, SetMin(at) - 1)>> \o splitBlankLines(text, SetMin(at) + 2)

\* text.split('\n\n').filter(p => p.trim().length > 0)
paragraphsOf_NoFilter(text) == splitBlankLines(text, 1)

paragraphsOf(text) == SelectSeq(splitBlankLines(text, 1), LAMBDA p : Len(trim(p)) > 0)

\* the last position of the run of whitespace that starts at position i
RECURSIVE spaceRunEnd(_, _)
spaceRunEnd(p, i) == IF i < Len(p) /\ IsSpace(p[i + 1]) THEN spaceRunEnd(p, i + 1) ELSE i

\* paragraph.split(/(?<=[.!?])\s+/) from position from on: a separator is a
\* maximal run of whitespace that follows a sentence end
RECURSIVE splitSentences(_, _)
splitSentences(p, from) ==
  LET at == {i \in (IF from > 2 THEN from ELSE 2)..Len(p) :
               IsSentenceEnd(p[i - 1]) /\ IsSpace(p[i])}
  IN  IF at = {} THEN <<SubSeq(p, from, Len(p))>>
      ELSE <<SubSeq(p, from, SetMin(at) - 1)>>
             \o splitSentences(p, spaceRunEnd(p, SetMin(at)) + 1)

\* the locals of splitTextIntoChunks
NoChunks == [chunks |-> <<>>, currentChunk |-> <<>>]

\* if (currentChunk) chunks.push(currentChunk.trim())
pushCurrent(st) ==
  IF Len(st.currentChunk) > 0 THEN Append(st.chunks, trim(st.currentChunk)) ELSE st.chunks

\* the body of the loop over the sentences of a large paragraph
addSentence_NoPush(st, sentence, chunkSize) ==
  IF Len(st.currentChunk) + Len(sentence) + 1 <= chunkSize
    THEN [st EXCEPT !.currentChunk =
            @ \o (IF Len(@) > 0 THEN <<" ">> ELSE <<>>) \o sentence]
    ELSE [chunks |-> st.chunks, currentChunk |-> sentence]

addSentence(st, sentence, chunkSize) ==
  IF Len(st.currentChunk) + Len(sentence) + 1 <= chunkSize
    THEN [st EXCEPT !.currentChunk =
            @ \o (IF Len(@) > 0 THEN <<" ">> ELSE <<>>) \o sentence]
    ELSE [chunks |-> pushCurrent(st), currentChunk |-> sentence]

RECURSIVE addSentences(_, _, _)
addSentences(st, sentences, chunkSize) ==
  IF Len(sentences) = 0 THEN st
  ELSE addSentences(addSentence(st, Head(sentences), chunkSize), Tail(sentences), chunkSize)

\* paragraph.length > chunkSize * 1.5
IsLarge(s, chunkSize) == 2 * Len(s) > 3 * chunkSize

\* the body of the loop over the paragraphs
addParagraph_NoSentences(st, paragraph, chunkSize) ==
  IF Len(st.currentChunk) + Len(paragraph) + 2 <= chunkSize
    THEN [st EXCEPT !.currentChunk =
            @ \o (IF Len(@) > 0 THEN <<"\n", "\n">> ELSE <<>>) \o paragraph]
    ELSE [chunks |-> pushCurrent(st), currentChunk |-> paragraph]

addParagraph_SeparatorNotCounted(st, paragraph, chunkSize) ==
  IF IsLarge(paragraph, chunkSize)
    THEN addSentences(st, splitSentences(paragraph, 1), chunkSize)
    ELSE IF Len(st.currentChunk) + Len(paragraph) <= chunkSize
      THEN [st EXCEPT !.currentChunk =
              @ \o (IF Len(@) > 0 THEN <<"\n", "\n">> ELSE <<>>) \o paragraph]
      ELSE [chunks |-> pushCurrent(st), currentChunk |-> paragraph]

addParagraph(st, paragraph, chunkSize) ==
  IF IsLarge(paragraph, chunkSize)
    THEN addSentences(st, splitSentences(paragraph, 1), chunkSize)
    ELSE IF Len(st.currentChunk) + Len(paragraph) + 2 <= chunkSize
      THEN [st EXCEPT !.currentChunk =
              @ \o (IF Len(@) > 0 THEN <<"\n", "\n">> ELSE <<>>) \o paragraph]
      ELSE [chunks |-> pushCurrent(st), currentChunk |-> paragraph]

RECURSIVE addParagraphs(_, _, _)
addParagraphs(st, paragraphs, chunkSize) ==
  IF Len(paragraphs) = 0 THEN st
  ELSE addParagraphs(addParagraph(st, Head(paragraphs), chunkSize), Tail(paragraphs), chunkSize)

splitTextIntoChunks(text, chunkSize) ==
  pushCurrent(addParagraphs(NoChunks, paragraphsOf(text), chunkSize))

\* --------------------------------------- PDFProcessor.processPDF, extraction
\* a text item of len letters
Item(len) == [i \in 1..len |-> "a"]

\* pageText: every item followed by a space
RECURSIVE pageText(_)
pageText(items) ==
  IF Len(items) = 0 THEN <<>> ELSE Head(items) \o <<" ">> \o pageText(Tail(items))

\* fullText: every page's text followed by a blank line
RECURSIVE fullText(_)
fullText(pages) ==
  IF Len(pages) = 0 THEN <<>>
  ELSE pageText(Head(pages)) \o <<"\n", "\n">> \o fullText(Tail(pages))

\* ------------------------------------------------------ PDFProcessor.cleanup
\* deleteIndex in one try block: 'not found' is logged as fine, any other
\* error is thrown again
PdfCleanup(c, outcome) ==
  [coll |-> AfterDelete(c, outcome), raised |-> outcome = "error"]

\* ------------------------------- the methods of PDFProcessor called directly
Alphabet == {"a", ".", " ", "\n"}

Texts == UNION {[1..n -> Alphabet] : n \in 0..MaxTextLen}

ChunkSizes == {1, 2, 3}

\* the lengths of the page texts of three-page documents whose extracted
\* text has 2.5 * CHUNK_SIZE characters
PageTextLengths ==
  {l \in [1..3 -> {499, 831, 832, 1496}] :
     l[1] + l[2] + l[3] + 3 * 2 = (5 * CHUNK_SIZE) \div 2}

\* a page of one text item
DocumentOf(l) == [k \in DOMAIN l |-> <<Item(l[k] - 1)>>]

\* a collection holding one document of one chunk
OneRecordColl ==
  AfterUpsert(AfterCreate(AbsentColl, ModelDim, "ok"), generateSafeIds(0, 0, 1),
              Embeddings(PdfTexts(1), "ok"), PdfMetadataArray(UserPath, 1), "ok")

\* the arguments of a call: a text and a chunk size handed to
\* splitTextIntoChunks, or the page text lengths of a document to extract
NoCall == [text |-> <<>>, chunkSize |-> 0, pages |-> <<>>]

Calls ==
  {[text |-> t, chunkSize |-> c, pages |-> <<>>] : t \in Texts, c \in ChunkSizes}
    \cup {[text |-> <<>>, chunkSize |-> CHUNK_SIZE, pages |-> l] : l \in PageTextLengths}

ProcInit ==
  /\ stateFile = MissingFile
  /\ defaultState = InitialDefaultState
  /\ \/ coll = AbsentColl /\ run \in Calls
     \/ coll = OneRecordColl /\ run = NoCall
  /\ pc = "proc_idle"
  /\ log = <<>>
  /\ last = NoOutcome
  /\ runs = 0

\* processPDF up to the call of splitTextIntoChunks(fullText, 1000)
ExtractPages ==
  /\ pc = "proc_idle"
  /\ run.pages # <<>>
  /\ run' = [run EXCEPT !.text = fullText(DocumentOf(run.pages))]
  /\ pc' = "proc_split"
  /\ last' = StepOutcome
  /\ UNCHANGED <<stateFile, defaultState, coll, log, runs>>

\* splitTextIntoChunks(text, chunkSize), called by processPDF or directly
SplitText ==
  /\ pc = "proc_split" \/ (pc = "proc_idle" /\ run.pages = <<>>)
  /\ last' = [NoOutcome EXCEPT !.op = "split",
                 !.results = splitTextIntoChunks(run.text, run.chunkSize)]
  /\ pc' = "proc_done"
  /\ UNCHANGED <<stateFile, defaultState, coll, run, log, runs>>

\* a caller awaits processor.cleanup()
PdfCleanupCall(outcome) ==
  /\ pc = "proc_idle"
  /\ outcome \in DeleteOutcomes(coll)
  /\ coll' = PdfCleanup(coll, outcome).coll
  /\ log' = Append(log, Event("delete", outcome = "ok", 0, 0))
  /\ last' = [NoOutcome EXCEPT !.op = "cleanup",
                 !.raised = PdfCleanup(coll, outcome).raised]
  /\ pc' = "proc_done"
  /\ UNCHANGED <<stateFile, defaultState, run, runs>>

ProcNext ==
  \/ ExtractPages
  \/ SplitText
  \/ \E outcome \in {"ok", "notfound", "error"} : PdfCleanupCall(outcome)

PdfProcessorSpec == ProcInit /\ [][ProcNext]_vars

\* ------------------------------------ the functions of pdf-storage on their own
OtherPath == <<"docs", "other.pdf">>

StorePaths == {UserPath, OtherPath, DEFAULT_PDF_PATH}

StoreInit ==
  /\ stateFile = MissingFile
  /\ defaultState = InitialDefaultState
  /\ coll = AbsentColl
  /\ pc = "store"
  /\ run = IdleRun
  /\ log = <<>>
  /\ last = NoOutcome
  /\ runs = 0

\* setLastProcessedPdfPath(pdfPath); writeFileSync succeeds or throws
StoreSet(pdfPath, wrote) ==
  /\ pc = "store"
  /\ IF WriteThrows(stateFile)
       THEN /\ UNCHANGED <<stateFile, defaultState>>
            /\ last' = [NoOutcome EXCEPT !.op = "setpath", !.raised = TRUE,
                           !.filePath = pdfPath, !.pathBefore = Null]
       ELSE /\ setLastProcessedPdfPath(pdfPath, wrote)
            /\ last' = [NoOutcome EXCEPT !.op = "setpath", !.success = wrote,
                           !.filePath = pdfPath, !.pathBefore = Null]
  /\ UNCHANGED <<coll, pc, run, log, runs>>

\* getLastProcessedPdfPath(): the value returned, or the TypeError
StoreGet ==
  /\ pc = "store"
  /\ last' = IF ReadThrows(stateFile)
               THEN [NoOutcome EXCEPT !.op = "getpath", !.raised = TRUE]
               ELSE [NoOutcome EXCEPT !.op = "getpath",
                       !.filePath = getLastProcessedPdfPath(stateFile, defaultState)]
  /\ UNCHANGED <<stateFile, defaultState, coll, pc, run, log, runs>>

\* the state file is removed
StoreDelete ==
  /\ pc = "store"
  /\ stateFile.kind # "missing"
  /\ stateFile' = MissingFile
  /\ last' = StepOutcome
  /\ UNCHANGED <<defaultState, coll, pc, run, log, runs>>

\* the state file is overwritten with something that is not a state object
StoreCorrupt(file) ==
  /\ pc = "store"
  /\ stateFile' = file
  /\ last' = StepOutcome
  /\ UNCHANGED <<defaultState, coll, pc, run, log, runs>>

\* the process restarts: the module is loaded again
StoreRestart ==
  /\ pc = "store"
  /\ defaultState' = InitialDefaultState
  /\ last' = StepOutcome
  /\ UNCHANGED <<stateFile, coll, pc, run, log, runs>>

StoreNext ==
  \/ \E pdfPath \in StorePaths, wrote \in BOOLEAN : StoreSet(pdfPath, wrote)
  \/ StoreGet
  \/ StoreDelete
  \/ \E file \in CorruptFiles : StoreCorrupt(file)
  \/ StoreRestart

StorageSpec == StoreInit /\ [][StoreNext]_vars

\* ------------------------------- the methods of RAGProcessor called directly
\* the collection each entry point hands to its processor
uploadCollectionName == "pdf_documents"

queryCollectionName == "pdf_documents"

initIndexName == "pdf_documents"

\* the store's query: a vector of another dimension than the collection's
\* is an error
VectorQueryOutcomes(c, queryVector) ==
  IF c.exists /\ c.dim = queryVector.dim THEN {"ok", "error"} ELSE {"error"}

\* processor.processPDF(filePath, embedder) is called on a store that holds
\* nothing or one document
RagInit ==
  /\ stateFile = MissingFile
  /\ defaultState = InitialDefaultState
  /\ coll \in {AbsentColl, OneRecordColl}
  /\ runs = 0
  /\ pc = "rag_extract"
  /\ \E embedder \in Embedders :
       run = [NewRun("processPDF", DEFAULT_PDF_PATH) EXCEPT !.embedder = embedder]
  /\ log = <<>>
  /\ last = NoOutcome

\* processPDF has returned and the caller awaits searchContent(query, topK)
RagSearchCall(query, topK, embedOutcome, queryOutcome) ==
  /\ pc = "init_setpath"
  /\ queryOutcome \in VectorQueryOutcomes(coll, QueryVector(query))
  /\ LET r == RagSearchContent(query, topK, coll, embedOutcome, queryOutcome)
     IN  last' = [NoOutcome EXCEPT !.op = "search", !.query = query, !.topK = topK,
                    !.results = r.results, !.raw = r.results, !.caught = r.caught,
                    !.searchRaised = r.raised,
                    !.embedCalls = r.embedCalls, !.storeCalls = r.storeCalls]
  /\ pc' = "rag_searched"
  /\ UNCHANGED <<stateFile, defaultState, coll, run, log, runs>>

RagNext ==
  \/ \E ok \in BOOLEAN, n \in ChunkCounts : RagExtract(ok, n)
  \/ \E outcome \in {"ok", "notfound", "error"} : RagCleanup(outcome)
  \/ \E outcome \in EmbedOutcomes : RagEmbed(outcome)
  \/ \E outcome \in {"ok", "error"} : RagCreate(outcome)
  \/ \E outcome \in {"ok", "error"} : RagUpsert(outcome)
  \/ \E query \in Queries, topK \in TopKs, embedOutcome \in EmbedOutcomes,
        queryOutcome \in {"ok", "error"} :
       RagSearchCall(query, topK, embedOutcome, queryOutcome)

RagProcessorSpec == RagInit /\ [][RagNext]_vars

\* =================================================================== claims
Failed == last.op \in {"upload", "workflow", "init"}
          /\ last.failedAt \in {"extract", "embed", "create", "upsert"}

LogIndex == DOMAIN log

\* C1: when an ingestion run fails at extraction, embedding, index creation
\* or upsert, LastProcessedPath is what it was before the run started.
C1_PathUnchangedOnFailure == Failed => LastProcessedPath = last.pathBefore

\* C2: within one run LastProcessedPath is written only after the run's last
\* upsert: no upsert of the run comes after a write of the path.
C2_PathWrittenAfterUpserts ==
  \A i, j \in LogIndex :
    log[i].op = "setPath" /\ log[j].op = "upsert" => j < i /\ log[j].ok

\* C3: within one run the delete precedes the create and a completed create
\* precedes every upsert issued.
C3_DeleteCreateUpsertOrder ==
  \A j \in LogIndex : log[j].op = "upsert" =>
    \E c \in 1..(j - 1) :
      /\ log[c].op = "create" /\ log[c].ok
      /\ \E d \in 1..(c - 1) : log[d].op = "delete"

\* C4: the collection never holds records of more than one document.
C4_SingleActiveDocument ==
  \A a, b \in DOMAIN coll.batches :
    coll.batches[a].metadata.path = coll.batches[b].metadata.path

\* C5: after a failed run the collection holds no record that run wrote.
C5_NoPartialCommit ==
  Failed => \A b \in DOMAIN coll.batches : coll.batches[b].ids.run # run.id

\* C6: after a run that failed at extraction, embedding, index creation or
\* upsert, the records of the previously ingested document are all still there.
C6_PreviousCollectionIntact ==
  Failed /\ RecordCount(run.collBefore) > 0 => coll = run.collBefore


\* C7: retrieval never raises: queryPdfTool.execute and searchContent return
\* a list whatever the embedding service and the vector store answer.
C7_RetrievalNeverRaises ==
  last.op \in {"query", "init"} => ~last.raised /\ ~last.searchRaised

\* a retrieval whose search failed in the store (absent collection or
\* connectivity) or in the embedding service, and returned an empty list
C7_Witness ==
  /\ last.op = "query"
  /\ last.embedCalls = 1
  /\ last.storeCalls = 1
  /\ ~coll.exists
  /\ last.results = <<>>

\* a query that is empty or made of whitespace only
BlankInput(query) == \A k \in DOMAIN query : IsSpace(query[k])

\* C8: a retrieval with a non-empty query, no filePath and no
\* LastProcessedPath returns no result, says that no document was ingested,
\* and calls neither the embedding service nor the vector store.
C8_NoDocumentIndication ==
  /\ last.op \in {"query", "wfquery"}
  /\ ~BlankInput(last.query)
  /\ last.filePath = NoPath
  /\ last.pathBefore = Null
  => /\ last.results = <<>>
     /\ last.message = NoPdfProcessed
     /\ last.embedCalls = 0
     /\ last.storeCalls = 0

EmbedCalls == SelectSeq(log, LAMBDA e : e.op = "embed")

CeilDiv(a, b) == (a + b - 1) \div b

\* the ingestion of the current run has upserted everything
Ingested ==
  \/ pc \in {"init_setpath", "init_verify"}
  \/ pc = "idle" /\ last.op \in {"upload", "workflow", "init"} /\ last.failedAt = "none"

\* the points the current run wrote
RunPoints ==
  SelectSeq(Records(coll), LAMBDA r : r.id[1] = run.id)

\* C10: an ingestion of N chunks (the embedding service answering every
\* call) issues ceil(N / 100) embedding calls, on consecutive slices of at
\* most 100 chunks in order, and upserts N vectors, each paired with its own
\* chunk, in chunk order.
C10_BatchedEmbedding ==
  Ingested /\ (\A k \in DOMAIN EmbedCalls : EmbedCalls[k].ok) =>
    /\ Len(EmbedCalls) = CeilDiv(run.n, BATCH_SIZE)
    /\ \A k \in DOMAIN EmbedCalls :
         /\ EmbedCalls[k].from = (k - 1) * BATCH_SIZE
         /\ EmbedCalls[k].size = Min(BATCH_SIZE, run.n - (k - 1) * BATCH_SIZE)
    /\ Len(RunPoints) = run.n
    /\ \A k \in DOMAIN RunPoints :
         /\ RunPoints[k].metadata.chunkIndex = k - 1
         /\ RunPoints[k].vector.of = ChunkText(k - 1)

\* the createIndex calls of the current run, in order
CreateCalls == SelectSeq(log, LAMBDA e : e.op = "create")

\* C11: every ingestion run creates the collection exactly once, with the
\* dimension of the first vector of its first embedding batch, and before
\* any upsert, whatever the chunk count and the answer to the first batch.
C11_CreatedExactlyOnce ==
  /\ Len(CreateCalls) <= 1
  /\ \A j \in LogIndex : log[j].op = "upsert" =>
        \E c \in 1..(j - 1) : log[c].op = "create"
  /\ Ingested =>
        /\ Len(CreateCalls) = 1
        /\ CreateCalls[1].ok
        /\ CreateCalls[1].from = 0
        /\ CreateCalls[1].size = ModelDim

\* C12: an embedding answer whose count differs from the batch's is an
\* error and no upsert is issued for the batch: every upsert issued carries
\* as many vectors as ids and metadata.
C12_UpsertListsEqualLength ==
  \A j \in LogIndex : log[j].op = "upsert" => log[j].size = log[j].ids
\* the position right after initializePdf's own reset, and right after the
\* reset processPDF runs next
AfterFirstReset == pc = "rag_extract"

AfterSecondReset == pc \in {"rag_embed", "init_setpath"} /\ run.i = 0

\* C14: reset is idempotent. No reset fails its run; a reset of an absent
\* collection leaves it absent; after initializePdf's reset and processPDF's
\* reset the collection is as the first reset left it when that one deleted
\* it (or found none); and whatever two resets in a row can leave, one reset
\* can leave.
C14_ResetIdempotent ==
  /\ last.failedAt # "cleanup"
  /\ AfterFirstReset /\ ~run.collBefore.exists => coll = AbsentColl
  /\ AfterSecondReset /\ (log[1].ok \/ ~run.collBefore.exists) => coll = AbsentColl
  /\ \A o1 \in DeleteOutcomes(coll) :
        \A o2 \in DeleteOutcomes(cleanup(coll, o1)) :
          /\ ~cleanupThrows(o1) /\ ~cleanupThrows(o2)
          /\ \E o \in DeleteOutcomes(coll) :
                cleanup(cleanup(coll, o1), o2) = cleanup(coll, o)
          /\ o1 = "ok" => cleanup(cleanup(coll, o1), o2) = cleanup(coll, o1)

\* initializePdf deleted a populated collection, and the reset of processPDF
\* then found none and went on
C14_Witness ==
  /\ AfterSecondReset
  /\ RecordCount(run.collBefore) > 0
  /\ log[1].op = "delete" /\ log[1].ok
  /\ log[2].op = "delete" /\ ~log[2].ok
  /\ coll = AbsentColl
\* the retrieval that finished last ran its search to the end
Searched == last.embedCalls = 1 /\ last.storeCalls = 1 /\ ~last.caught

\* C15: a retrieval with topK <= 0, or against a collection that exists and
\* holds no record, returns an empty list and no error; queryPdfTool with
\* topK = 0 returns no result.
C15_NonPositiveTopKEmpty ==
  /\ last.op = "query" /\ last.topK <= 0 =>
        last.results = <<>> /\ ~last.raised /\ ~last.searchRaised
  /\ last.op \in {"query", "init"} /\ last.embedCalls = 1
        /\ coll.exists /\ RecordCount(coll) = 0 =>
        last.results = <<>> /\ last.raw = <<>> /\ ~last.raised /\ ~last.searchRaised

\* C16: a retrieval with topK = k > 0 that runs to the end against a
\* collection of n records returns min(k, n) results, the first min(k, n)
\* the index ranks, in that order with their scores (descending); the
\* shaping of searchContent and queryPdfTool drops, adds and moves nothing.
C16_MinTopKResults ==
  /\ last.op = "query" /\ last.topK > 0 /\ Searched =>
        /\ Len(last.results) = Min(last.topK, RecordCount(coll))
        /\ \A j \in DOMAIN last.results :
              /\ last.results[j].text = FirstPoints(coll.batches, last.topK)[j].metadata.text
              /\ last.results[j].score = Similarity(QueryVector(last.query), coll, j)
        /\ \A i, j \in DOMAIN last.results :
              i < j => last.results[i].score >= last.results[j].score
  /\ last.op = "init" /\ last.failedAt = "none" /\ Searched =>
        /\ Len(last.raw) = Min(last.topK, RecordCount(coll))
        /\ \A j \in DOMAIN last.raw :
              /\ last.raw[j].text = FirstPoints(coll.batches, last.topK)[j].metadata.text
              /\ last.raw[j].score = Similarity(QueryVector(last.query), coll, j)

\* topK = 5 against a collection of one record: one result
C16_Witness ==
  /\ last.op = "query" /\ last.topK = DEFAULT_TOPK /\ Searched
  /\ RecordCount(coll) = 1
  /\ Len(last.results) = 1
\* the metadata of the records the collection holds, batch by batch
StoredMetadata ==
  UNION {{MetadataAt(coll.batches[b].metadata, k) : k \in 1..coll.batches[b].vectors.count} :
           b \in DOMAIN coll.batches}

\* C17: after a successful ingestion of N chunks the collection holds
\* exactly N records, one per chunk: chunkIndex runs over 0..N-1, each value
\* once, and totalChunks is N on every record.
C17_OneRecordPerChunk ==
  Ingested =>
    /\ RecordCount(coll) = run.n
    /\ {m.chunkIndex : m \in StoredMetadata} = 0..(run.n - 1)
    /\ \A m \in StoredMetadata : m.totalChunks = run.n
\* C13: reset never aborts its caller: neither RAGProcessor.cleanup nor
\* PDFProcessor.cleanup raises, whatever deleteIndex answers.
C13_ResetNeverAborts ==
  /\ \A o \in DeleteOutcomes(coll) : ~cleanupThrows(o)
  /\ last.op = "cleanup" => ~last.raised

\* a call of splitTextIntoChunks has returned
SplitDone == pc = "proc_done" /\ last.op = "split"

\* C18: the text of a three-page document of 2,500 extracted characters,
\* split with chunk size 1000, gives exactly 3 chunks.
C18_ThreePagesThreeChunks ==
  SplitDone /\ Len(run.pages) = 3 /\ Len(run.text) = (5 * CHUNK_SIZE) \div 2
    /\ run.chunkSize = CHUNK_SIZE
  => Len(last.results) = 3

\* the chunks longer than 1.5 times the chunk size
Oversized == {k \in DOMAIN last.results : IsLarge(last.results[k], run.chunkSize)}

\* a text with no sentence boundary inside
IsSingleSentence(s) == Len(splitSentences(s, 1)) = 1

\* C19: at most one chunk is longer than 1.5 times the chunk size, and
\* such a chunk is a single sentence.
C19_AtMostOneOversized ==
  SplitDone =>
    /\ Cardinality(Oversized) <= 1
    /\ \A k \in Oversized : IsSingleSentence(last.results[k])

\* C19 as amended: every chunk longer than 1.5 times the chunk size is a
\* single sentence (there may be several such chunks).
C19_OversizedIsOneSentence ==
  SplitDone => \A k \in Oversized : IsSingleSentence(last.results[k])

\* two sentences, each too long for a chunk, each became a chunk
C19_Witness ==
  /\ SplitDone
  /\ Cardinality(Oversized) >= 2
  /\ \E p \in DOMAIN paragraphsOf(run.text) :
        Len(splitSentences(paragraphsOf(run.text)[p], 1)) >= 2

RECURSIVE Flatten(_)
Flatten(seqs) == IF Len(seqs) = 0 THEN <<>> ELSE Head(seqs) \o Flatten(Tail(seqs))

NonWhite(s) == SelectSeq(s, LAMBDA c : ~IsSpace(c))

\* C20: the non-whitespace characters of the chunks, concatenated in
\* order, are the non-whitespace characters of the input text, in order.
C20_Lossless ==
  SplitDone => NonWhite(Flatten(last.results)) = NonWhite(run.text)

\* a text of two paragraphs, one of them split into sentences, that came
\* out as several chunks with whitespace between them dropped
C20_Witness ==
  /\ SplitDone
  /\ Len(last.results) >= 2
  /\ Len(paragraphsOf(run.text)) >= 2
  /\ \E p \in DOMAIN paragraphsOf(run.text) :
        /\ IsLarge(paragraphsOf(run.text)[p], run.chunkSize)
        /\ Len(splitSentences(paragraphsOf(run.text)[p], 1)) >= 2
  /\ Len(NonWhite(run.text)) < Len(run.text)
\* C21: splitTextIntoChunks returns no chunk for an empty or whitespace-only
\* text, at least one for a text with a non-whitespace character, and never
\* an empty chunk.
C21_ChunksOfDegenerateTexts ==
  SplitDone =>
    /\ NonWhite(run.text) = <<>> => last.results = <<>>
    /\ NonWhite(run.text) # <<>> => Len(last.results) >= 1
    /\ \A k \in DOMAIN last.results : Len(last.results[k]) > 0

\* a text of blank paragraphs only, which gave no chunk
C21_Witness ==
  /\ SplitDone
  /\ Len(splitBlankLines(run.text, 1)) >= 2
  /\ \E k \in DOMAIN run.text : run.text[k] = " "
  /\ NonWhite(run.text) = <<>>
  /\ last.results = <<>>
\* the state file is missing or is not the JSON of an object
MissingOrCorrupt == stateFile.kind \in {"missing", "unparseable", "null", "primitive"}

\* C22: whenever the state file is missing or corrupt when it is read,
\* getLastProcessedPdfPath returns null and does not raise.
C22_CorruptStateReadsNull ==
  last.op = "getpath" /\ MissingOrCorrupt => ~last.raised /\ last.filePath = Null
\* the message of the result spells the path out: `File not found: ${filePath}`
MessageNamesFile == last.message = "File not found"

\* C23: uploadPdfTool.execute never raises, and every failed ingestion gives
\* a result with success = false, a message and the attempted file name.
C23_UploadFailureStructured ==
  last.op = "upload" /\ last.failedAt # "none" =>
    /\ ~last.raised
    /\ ~last.success
    /\ last.message # Absent
    /\ last.filePath # NoPath =>
          last.fileName = basename(last.filePath) \/ MessageNamesFile

\* the metadata fields every record is to carry
MetadataFields ==
  {"text", "title", "fileName", "author", "description", "chunkIndex",
   "totalChunks", "source"}

\* C24: every record written by either processor carries the eight metadata
\* fields, and its source is the path of the file ingested.
C24_EightMetadataFields ==
  \A b \in DOMAIN coll.batches :
    \A k \in 1..coll.batches[b].vectors.count :
      /\ MetadataFields \subseteq DOMAIN MetadataAt(coll.batches[b].metadata, k)
      /\ MetadataAt(coll.batches[b].metadata, k).source = coll.batches[b].metadata.path
\* the documents the records of a raw result list come from
ResultDocuments == {last.raw[j].metadata.fileName : j \in DOMAIN last.raw}

\* C25: a query interleaved with an ingestion run returns records of the
\* old document only, or nothing, or records of the new document only: it
\* raises no error and never mixes records of two documents.
C25_ReadDuringWrite ==
  last.op = "query" =>
    /\ ~last.raised /\ ~last.searchRaised
    /\ Cardinality(ResultDocuments) <= 1
\* the upsert of the batch starting at chunk `from` returned between the
\* calls i and j of the run
UpsertedBetween(from, i, j) ==
  \E k \in LogIndex :
    /\ i < k /\ k < j
    /\ log[k].op = "upsert" /\ log[k].from = from /\ log[k].ok

\* C26: the batches of RAGProcessor.processPDF are processed one after the
\* other: the embedding call of a batch is issued only after the upsert of
\* every earlier batch of the run has returned.
C26_BatchesSequential ==
  run.entry = "init" =>
    \A i, j \in LogIndex :
      i < j /\ log[i].op = "embed" /\ log[j].op = "embed"
        => UpsertedBetween(log[i].from, i, j)

C26_Witness ==
  /\ run.entry = "init" /\ Ingested
  /\ Len(EmbedCalls) = MaxBatches
  /\ UpsertedBetween(BATCH_SIZE, 1, Len(log))
\* a retrieval request that passed the validation of its query
Retrieved ==
  \/ last.op = "query" /\ Len(last.query) > 0 /\ Len(trim(last.query)) > 0
  \/ last.op = "wfquery" /\ Len(last.query) > 0

\* the reference by the precedence of the claim
Reference == IF last.filePath # NoPath THEN last.filePath ELSE last.pathBefore

\* the outcome for no ingested document: nothing retrieved, no service called
NoDocumentIngested ==
  /\ last.results = <<>> /\ last.embedCalls = 0 /\ last.storeCalls = 0
  /\ ~last.success
  /\ last.op = "wfquery" => last.message = NoPdfProcessed

\* C27: a retrieval uses the filePath argument when it is given, otherwise
\* the stored LastProcessedPath, and otherwise ends with the outcome for no
\* ingested document; the reported fileName is the base name of the
\* reference it used.
C27_ReferencePrecedence ==
  Retrieved =>
    IF Reference = Null
      THEN NoDocumentIngested /\ last.fileName = ""
      ELSE last.fileName = basename(Reference) /\ (last.op = "wfquery" => last.success)

C27_Witness ==
  /\ last.op = "query" /\ Retrieved
  /\ last.filePath = UserPath /\ last.pathBefore = DEFAULT_PDF_PATH
  /\ last.fileName = "user.pdf"
\* C28: every result of the query tool is its index record as {text, score,
\* metadata}: text is the record's metadata.text ('' when the record has
\* none), the score is the record's and metadata is the stored metadata.
C28_ResultIsRecord ==
  last.op = "query" =>
    /\ Len(last.results) = Len(last.raw)
    /\ \A j \in DOMAIN last.results :
         /\ last.results[j].score = last.raw[j].score
         /\ last.results[j].text = textOr(last.raw[j].metadata, "")
         /\ last.results[j].metadata = last.raw[j].metadata
\* the units of a text in the order the loops take them: the sentences of
\* a paragraph longer than 1.5 chunk sizes (joined by one space), every
\* other paragraph whole (joined by a blank line)
RECURSIVE UnitsOf(_, _)
UnitsOf(paragraphs, chunkSize) ==
  IF Len(paragraphs) = 0 THEN <<>>
  ELSE (IF IsLarge(Head(paragraphs), chunkSize)
          THEN [j \in DOMAIN splitSentences(Head(paragraphs), 1) |->
                  [text |-> splitSentences(Head(paragraphs), 1)[j], sep |-> <<" ">>]]
          ELSE << [text |-> Head(paragraphs), sep |-> <<"\n", "\n">>] >>)
       \o UnitsOf(Tail(paragraphs), chunkSize)

Units == UnitsOf(paragraphsOf(run.text), run.chunkSize)

\* the locals of the call after its first k units
RECURSIVE AfterUnits(_)
AfterUnits(k) ==
  IF k = 0 THEN NoChunks
  ELSE IF Units[k].sep = <<" ">>
    THEN addSentence(AfterUnits(k - 1), Units[k].text, run.chunkSize)
    ELSE addParagraph(AfterUnits(k - 1), Units[k].text, run.chunkSize)

\* unit k does not fit the running chunk it meets
Exceeds(k) ==
  /\ Len(AfterUnits(k - 1).currentChunk) > 0
  /\ Len(AfterUnits(k - 1).currentChunk) + Len(Units[k].sep) + Len(Units[k].text)
       > run.chunkSize

\* the running chunk is sealed at unit k
Sealed(k) == Len(AfterUnits(k).chunks) = Len(AfterUnits(k - 1).chunks) + 1

\* C29: the running chunk is sealed exactly when it is not empty and the
\* next unit appended to it would exceed the chunk size, and the next
\* running chunk is then that unit; otherwise the unit is appended. So a
\* running chunk of several units is never longer than the chunk size,
\* and a returned chunk longer than the chunk size is one unit, trimmed.
C29_SealingRule ==
  SplitDone =>
    /\ last.results = pushCurrent(AfterUnits(Len(Units)))
    /\ \A k \in DOMAIN Units :
         /\ Sealed(k) <=> Exceeds(k)
         /\ Sealed(k) =>
              /\ AfterUnits(k).chunks =
                   Append(AfterUnits(k - 1).chunks, trim(AfterUnits(k - 1).currentChunk))
              /\ AfterUnits(k).currentChunk = Units[k].text
         /\ ~Sealed(k) =>
              /\ AfterUnits(k).chunks = AfterUnits(k - 1).chunks
              /\ AfterUnits(k).currentChunk =
                   IF Len(AfterUnits(k - 1).currentChunk) = 0 THEN Units[k].text
                   ELSE AfterUnits(k - 1).currentChunk \o Units[k].sep \o Units[k].text
         /\ AfterUnits(k).currentChunk # Units[k].text
              => Len(AfterUnits(k).currentChunk) <= run.chunkSize
    /\ \A c \in DOMAIN last.results :
         Len(last.results[c]) > run.chunkSize
           => \E k \in DOMAIN Units : last.results[c] = trim(Units[k].text)

\* a chunk of two units was sealed by a unit that is longer than the chunk
\* size and became a chunk of its own
C29_Witness ==
  /\ SplitDone
  /\ \E k \in DOMAIN Units :
       /\ k >= 3
       /\ Sealed(k)
       /\ AfterUnits(k - 1).currentChunk # Units[k - 1].text
       /\ Len(Units[k].text) > run.chunkSize
       /\ \E c \in DOMAIN last.results : last.results[c] = trim(Units[k].text)
\* the collection holds the chunks 0..N-1 of the document at path p, each
\* once, and nothing else
HoldsExactly(p) ==
  /\ \A b \in DOMAIN coll.batches : coll.batches[b].metadata.path = p
  /\ \A m \in StoredMetadata :
       /\ RecordCount(coll) = m.totalChunks
       /\ {x.chunkIndex : x \in StoredMetadata} = 0..(m.totalChunks - 1)

\* C30: when no ingestion run is in progress and LastProcessedPath is not
\* null, the collection exists and holds exactly the records of the
\* document at LastProcessedPath.
C30_PathNamesStoredDocument ==
  pc = "idle" /\ LastProcessedPath # Null =>
    coll.exists /\ HoldsExactly(LastProcessedPath)
\* C31: every result of the query tool carries the fileName of the
\* document its record was ingested from, in its metadata and at the top
\* level of the answer.
C31_ResultsLabelledBySource ==
  last.op = "query" =>
    \A j \in DOMAIN last.results :
      /\ j \in DOMAIN last.raw
      /\ last.results[j].metadata.fileName = last.raw[j].metadata.fileName
      /\ last.fileName = last.raw[j].metadata.fileName
\* an ingestion request was rejected before processing: no path, or no file
Rejected ==
  /\ pc = "idle"
  /\ last.op \in {"upload", "workflow"}
  /\ last.failedAt \in {"path", "file"}

\* C32: an ingestion request rejected for its empty path or its missing
\* file leaves the collection and LastProcessedPath as they were.
C32_RejectedRequestChangesNothing ==
  Rejected => coll = run.collBefore /\ LastProcessedPath = last.pathBefore
\* C33: once setLastProcessedPdfPath(p) has returned,
\* getLastProcessedPdfPath() returns p, whatever the state file was before
\* and whether or not the write succeeded.
C33_SetThenGet ==
  last.op = "setpath" /\ ~last.raised =>
    /\ ~ReadThrows(stateFile)
    /\ getLastProcessedPdfPath(stateFile, defaultState) = last.filePath
\* the run created the collection
CreatedByRun == \E k \in LogIndex : log[k].op = "create" /\ log[k].ok

\* C34: every entry point addresses the collection 'pdf_documents', and the
\* query vector of searchContent has the dimension of the collection that
\* processPDF created, whichever embedder processPDF was handed.
C34_SameModelSameCollection ==
  /\ {uploadCollectionName, queryCollectionName, initIndexName} = {"pdf_documents"}
  /\ last.op = "search" /\ CreatedByRun /\ coll.exists
       => QueryVector(last.query).dim = coll.dim

====
